---- MODULE Spec2Model ----
(***************************************************************************)
(* A model of the reference-integrity engine of the context cache:         *)
(*   core/paths.rs       extract_paths, validate_path                       *)
(*   core/document.rs    Document::{load, save, prepare_sync, sync,         *)
(*                       validate}, hash                                    *)
(*   core/frontmatter.rs parse, serialize                                   *)
(*   core/cache.rs       Cache::{load, status, validate, sync}              *)
(*                                                                         *)
(* Text is a sequence of one-character strings ("\n" is the newline), a    *)
(* filesystem location is a sequence of component names, and the content   *)
(* of a source file is a small number.                                     *)
(***************************************************************************)
EXTENDS Naturals, Sequences, FiniteSets, TLC

----------------------------------------------------------------------------
(* Bounds of the model                                                      *)

\* Source files hold one of the contents 0..MaxContent.
MaxContent == 1
\* The local calendar date runs over the days 1..MaxDay.
MaxDay == 2
\* Scanner specification: a body is built of at most MaxBodyToks tokens.
MaxBodyToks == 6
\* Validator specification: a candidate path has at most MaxPathLen characters.
MaxPathLen == 5
\* The leading "./" of a mention, and the mentions of a body.
MaxDotSlash == 2
MaxMentions == 3
\* Codec specification: the text of a file is built of at most MaxTextToks tokens.
MaxTextToks == 3
\* The random keys of a new HashMap are one of the seeds 0..MaxSeed.
MaxSeed == 1

----------------------------------------------------------------------------
(* Text helpers: the str methods the code calls                             *)

NL == "\n"
\* The backtick character.
TICK == "bt"

\* str::starts_with
StartsWith(s, pre) ==
    /\ Len(s) >= Len(pre)
    /\ SubSeq(s, 1, Len(pre)) = pre

\* str::contains
Contains(s, sub) ==
    \E i \in 1..(Len(s) + 1) :
        /\ i + Len(sub) - 1 <= Len(s)
        /\ SubSeq(s, i, i + Len(sub) - 1) = sub

\* char::is_whitespace, on the characters of the model
IsWhitespace(c) == c \in {" ", NL}

\* str::trim_start
RECURSIVE trim_start(_)
trim_start(s) ==
    IF s # <<>> /\ IsWhitespace(Head(s)) THEN trim_start(Tail(s)) ELSE s

\* Index of the first occurrence of character c in s at or after i, 0 if none.
RECURSIVE IndexFrom(_, _, _)
IndexFrom(s, c, i) ==
    IF i > Len(s) THEN 0
    ELSE IF s[i] = c THEN i
    ELSE IndexFrom(s, c, i + 1)

\* str::lines: split at "\n"; a final empty piece is not a line.
RECURSIVE lines(_)
lines(s) ==
    IF s = <<>> THEN <<>>
    ELSE LET i == IndexFrom(s, NL, 1)
         IN IF i = 0 THEN <<s>>
            ELSE <<SubSeq(s, 1, i - 1)>> \o lines(SubSeq(s, i + 1, Len(s)))

\* str::split on the slash: the pieces between separators, empty pieces kept.
RECURSIVE SplitSlash(_)
SplitSlash(s) ==
    LET i == IndexFrom(s, "/", 1)
    IN IF i = 0 THEN <<s>>
       ELSE <<SubSeq(s, 1, i - 1)>> \o SplitSlash(SubSeq(s, i + 1, Len(s)))

\* Byte value of a character (the order String::cmp sorts by).
CharCode(c) ==
    CASE c = NL   -> 10
      [] c = " "  -> 32
      [] c = "."  -> 46
      [] c = "/"  -> 47
      [] c = TICK -> 96
      [] c = "a"  -> 97
      [] c = "b"  -> 98
      [] c = "g"  -> 103
      [] OTHER    -> 120

\* Ord for String: lexicographic by bytes, a proper prefix is smaller.
RECURSIVE StrLess(_, _)
StrLess(s, t) ==
    IF t = <<>> THEN FALSE
    ELSE IF s = <<>> THEN TRUE
    ELSE IF CharCode(Head(s)) # CharCode(Head(t))
         THEN CharCode(Head(s)) < CharCode(Head(t))
    ELSE StrLess(Tail(s), Tail(t))

\* paths.into_iter().collect() followed by Vec::sort
RECURSIVE SortedSeq(_)
SortedSeq(S) ==
    IF S = {} THEN <<>>
    ELSE LET m == CHOOSE x \in S : \A y \in S \ {x} : StrLess(x, y)
         IN <<m>> \o SortedSeq(S \ {m})

\* The set of elements of a sequence.
Range(s) == {s[i] : i \in DOMAIN s}

----------------------------------------------------------------------------
(* Path Scanner: core/paths.rs                                              *)

\* A filter that lets every non-empty span through.
is_path_like_any(s) == s # <<>>

\* is_path_like
is_path_like(s) == Contains(s, <<"/">>) \/ StartsWith(s, <<".", "/">>)

\* normalize_path: strip one leading "./"
normalize_path(path) ==
    IF StartsWith(path, <<".", "/">>) THEN SubSeq(path, 3, Len(path)) ELSE path

\* The while-peek loop: number of consecutive backticks at i.
RECURSIVE RunLen(_, _)
RunLen(line, i) ==
    IF i <= Len(line) /\ line[i] = TICK THEN 1 + RunLen(line, i + 1) ELSE 0

\* The for-loop over chars.by_ref() that looks for the closing run:
\* the position after the backtick that completes n consecutive backticks,
\* Len(line) + 1 when the iterator is exhausted first.
RECURSIVE CloseRun(_, _, _, _)
CloseRun(line, j, closing_count, n) ==
    IF j > Len(line) THEN Len(line) + 1
    ELSE IF line[j] = TICK
         THEN IF closing_count + 1 = n THEN j + 1
              ELSE CloseRun(line, j + 1, closing_count + 1, n)
    ELSE CloseRun(line, j + 1, 0, n)

\* extract_backtick_paths, with the iterator at position i.
RECURSIVE ScanLineFrom(_, _, _)
ScanLineFrom(line, i, paths) ==
    IF i > Len(line) THEN paths
    ELSE IF line[i] # TICK THEN ScanLineFrom(line, i + 1, paths)
    ELSE IF i + 1 <= Len(line) /\ line[i + 1] = TICK
         THEN LET n == RunLen(line, i)
              IN ScanLineFrom(line, CloseRun(line, i + n, 0, n), paths)
    ELSE LET end == IndexFrom(line, TICK, i + 1)
         IN IF end = 0 THEN paths
            ELSE LET content == SubSeq(line, i + 1, end - 1)
                 IN ScanLineFrom(line, end + 1,
                        IF is_path_like(content)
                        THEN paths \cup {normalize_path(content)}
                        ELSE paths)

extract_backtick_paths(line, paths) == ScanLineFrom(line, 1, paths)

\* A fence test that looks at the line as it is, leading whitespace included.
IsFenceLineUntrimmed(line) == StartsWith(line, <<TICK, TICK, TICK>>)

\* A line that toggles the code block state.
IsFenceLine(line) == StartsWith(trim_start(line), <<TICK, TICK, TICK>>)

\* The loop of extract_paths over the lines k.. of the content.
\* A scanner that toggles on fence lines but reads every other line.
RECURSIVE ScanLinesThroughFences(_, _, _, _)
ScanLinesThroughFences(ls, k, in_code_block, paths) ==
    IF k > Len(ls) THEN paths
    ELSE IF IsFenceLine(ls[k])
    THEN ScanLinesThroughFences(ls, k + 1, ~in_code_block, paths)
    ELSE ScanLinesThroughFences(ls, k + 1, in_code_block,
                                extract_backtick_paths(ls[k], paths))

RECURSIVE ScanLines(_, _, _, _)
ScanLines(ls, k, in_code_block, paths) ==
    IF k > Len(ls) THEN paths
    ELSE IF IsFenceLine(ls[k]) THEN ScanLines(ls, k + 1, ~in_code_block, paths)
    ELSE IF in_code_block THEN ScanLines(ls, k + 1, in_code_block, paths)
    ELSE ScanLines(ls, k + 1, in_code_block, extract_backtick_paths(ls[k], paths))

extract_paths(content) == SortedSeq(ScanLines(lines(content), 1, FALSE, {}))

----------------------------------------------------------------------------
(* Filesystem: what std::fs and Path::exists / is_dir answer                *)

\* A location is the sequence of component names below the filesystem root.
FsRoot == <<>>
ProjectRoot == << <<"p">> >>
ContextName == <<".context">>
ContextDir == Append(ProjectRoot, ContextName)
DirA == ProjectRoot \o << <<"a">> >>
FileAB == ProjectRoot \o << <<"a">>, <<"b">> >>
FileB == ProjectRoot \o << <<"b">> >>
OutsideB == << <<"b">> >>

\* The entries the model tracks; every other location does not exist.
Nodes == {FsRoot, ProjectRoot, DirA, FileAB, FileB, OutsideB}
\* The source files that are written and deleted while the program runs.
SourceFiles == {FileAB, FileB}

\* What a location holds: nothing, a directory, or a file and its content.
Absent == <<"absent">>
Dir == <<"dir">>
File(content) == <<"file", content>>
Contents == 0..MaxContent
Kinds == {Absent, Dir} \cup {File(c) : c \in Contents}
IsFile(kind) == kind[1] = "file"

Parent(node) == IF node = <<>> THEN <<>> ELSE SubSeq(node, 1, Len(node) - 1)

\* An entry exists only inside an existing directory.
FsConsistent(f) ==
    /\ f[FsRoot] = Dir
    /\ \A n \in Nodes \ {FsRoot} : f[n] # Absent => f[Parent(n)] = Dir

\* Path::join: an absolute argument replaces the base.
join(base, path) ==
    IF StartsWith(path, <<"/">>)
    THEN [base |-> FsRoot, rest |-> path]
    ELSE [base |-> base, rest |-> path]

\* Result values.
Ok(v) == [ok |-> TRUE, value |-> v]
Err(e) == [ok |-> FALSE, error |-> e]

\* Path resolution by the operating system: walk the components from cur.
\* Empty components and "." stay, ".." goes up, a name goes down; walking
\* on from anything but a directory fails.
RECURSIVE Walk(_, _, _)
Walk(f, cur, comps) ==
    IF comps = <<>> THEN Ok(cur)
    ELSE IF f[cur] # Dir THEN Err("ENOTDIR")
    ELSE LET c == Head(comps)
         IN IF c = <<>> \/ c = <<".">> THEN Walk(f, cur, Tail(comps))
            ELSE IF c = <<".", ".">> THEN Walk(f, Parent(cur), Tail(comps))
            ELSE LET nxt == Append(cur, c)
                 IN IF nxt \in Nodes /\ f[nxt] # Absent
                    THEN Walk(f, nxt, Tail(comps))
                    ELSE Err("ENOENT")

Lookup(f, pathbuf) == Walk(f, pathbuf.base, SplitSlash(pathbuf.rest))

\* Path::exists
exists(f, pathbuf) == Lookup(f, pathbuf).ok

\* Path::is_dir
is_dir(f, pathbuf) == exists(f, pathbuf) /\ f[Lookup(f, pathbuf).value] = Dir

\* std::fs::read: the bytes of a regular file, an I/O error otherwise.
read(f, pathbuf) ==
    IF exists(f, pathbuf) /\ IsFile(f[Lookup(f, pathbuf).value])
    THEN Ok(f[Lookup(f, pathbuf).value][2])
    ELSE Err("Io")

----------------------------------------------------------------------------
(* Path Validator: core/paths.rs                                            *)

PathErrors == {"Absolute", "ParentTraversal", "NotFound", "IsDirectory"}

\* A validator that looks for ".." before it looks at the first character.
validate_path_traversal_first(f, path, project_root) ==
    IF Contains(path, <<".", ".">>) THEN Err("ParentTraversal")
    ELSE IF StartsWith(path, <<"/">>) THEN Err("Absolute")
    ELSE LET normalized == normalize_path(path)
             full_path == join(project_root, normalized)
         IN IF ~exists(f, full_path) THEN Err("NotFound")
            ELSE IF is_dir(f, full_path) THEN Err("IsDirectory")
            ELSE Ok(normalized)

\* validate_path
validate_path(f, path, project_root) ==
    IF StartsWith(path, <<"/">>) THEN Err("Absolute")
    ELSE IF Contains(path, <<".", ".">>) THEN Err("ParentTraversal")
    ELSE LET normalized == normalize_path(path)
             full_path == join(project_root, normalized)
         IN IF ~exists(f, full_path) THEN Err("NotFound")
            ELSE IF is_dir(f, full_path) THEN Err("IsDirectory")
            ELSE Ok(normalized)

----------------------------------------------------------------------------
(* Content Fingerprinter: core/document.rs                                  *)

HexDigits == <<"0", "1", "2", "3", "4", "5", "6", "7",
               "8", "9", "a", "b", "c", "d", "e", "f">>

\* Sha256::digest rendered by {hash:x}: a hexadecimal string longer than the
\* fingerprint.  The stand-in gives the contents c and c + 2 digests that
\* differ only after the seventh character.
Sha256Hex(content) ==
    [i \in 1..8 |->
        HexDigits[((IF i = 8 THEN content ELSE (content % 2) * 7 + i) % 16) + 1]]

\* hash: the first 7 characters of the digest
hash(content) == SubSeq(Sha256Hex(content), 1, 7)

----------------------------------------------------------------------------
(* Documents and their backing files: core/document.rs, core/frontmatter.rs *)

\* The markdown files under the cache root; the last component is split
\* into the file stem and the extension.
Doc1 == ContextDir \o << <<"d1", ".md">> >>
Doc2 == ContextDir \o << <<"g">>, <<"d2", ".md">> >>
DocPaths == {Doc1, Doc2}
\* A file under the cache root that is no markdown file.
Note == ContextDir \o << <<"n", ".txt">> >>
CacheFiles == DocPaths \cup {Note}

\* Path::extension
extension(path) == LET name == path[Len(path)] IN name[Len(name)]

\* Path::file_stem
file_stem(path) ==
    LET name == path[Len(path)] IN SubSeq(name, 1, Len(name) - 1)

\* Document::new
Document(path, slug, description, references, updated, body) ==
    [path |-> path, slug |-> slug, description |-> description,
     references |-> references, updated |-> updated, body |-> body]

\* The empty reference map, HashMap::new().
NoRefs == [k \in {} |-> <<>>]

\* The text of a backing file.  With a metadata block (fm) the file is the
\* YAML mapping of the four fields between "---" lines and `rest`, the text
\* after the closing delimiter; without one, `rest` is the whole file.
\* A mapping without a slug key has slug = NoSlug.  `keys` is the order in
\* which the entries of the references mapping stand in the text; a file
\* written by hand lists them in alphabetical order.
NoSlug == <<"<no slug>">>
FileWithFm(slug, description, references, updated, rest) ==
    [fm |-> TRUE, slug |-> slug, description |-> description,
     references |-> references, keys |-> SortedSeq(DOMAIN references),
     updated |-> updated, rest |-> rest]
PlainFile(text) ==
    [fm |-> FALSE, slug |-> <<>>, description |-> <<>>,
     references |-> NoRefs, keys |-> <<>>, updated |-> <<>>, rest |-> text]

\* A location under the cache root that holds no file.
NoFile ==
    [fm |-> FALSE, slug |-> <<"<no file>">>, description |-> <<>>,
     references |-> NoRefs, keys |-> <<>>, updated |-> <<>>, rest |-> <<>>]

\* frontmatter::serialize: "---\n{yaml}---\n\n{body}"; the entries of the
\* references mapping are written in `order`, the order in which the loop
\* over the HashMap visits them.
serialize(document, order) ==
    [fm |-> TRUE, slug |-> document.slug, description |-> document.description,
     references |-> document.references, keys |-> order,
     updated |-> document.updated, rest |-> <<NL>> \o document.body]

\* parse_with_frontmatter, on the pieces extract_frontmatter returns:
\* the body is the text after the closing delimiter, trim_start applied.
parse_with_frontmatter(path, file) ==
    IF file.slug = NoSlug THEN Err("InvalidDocument")
    ELSE Ok(Document(path, file.slug, file.description, file.references,
                     file.updated, trim_start(file.rest)))

\* parse_without_frontmatter
parse_without_frontmatter(path, file) ==
    Document(path, file_stem(path), <<>>, NoRefs, <<>>, file.rest)

\* frontmatter::parse
parse(path, file) ==
    IF file.fm THEN parse_with_frontmatter(path, file)
    ELSE Ok(parse_without_frontmatter(path, file))

\* Document::project_root: the parent of the nearest ancestor directory
\* named ".context"; dir is the directory the walk is at.
RECURSIVE FindContext(_)
FindContext(dir) ==
    IF dir = <<>> THEN Err("None")
    ELSE IF dir[Len(dir)] = ContextName THEN Ok(Parent(dir))
    ELSE FindContext(Parent(dir))

project_root(doc) == FindContext(Parent(doc.path))

\* The directory a relative PathBuf is resolved against.
Cwd == ProjectRoot

\* Document::resolve_ref_path
resolve_ref_path(doc, ref_path) ==
    IF project_root(doc).ok
    THEN join(project_root(doc).value, ref_path)
    ELSE join(Cwd, ref_path)

\* InvalidReference::new
InvalidReference(path, reason) == [path |-> path, reason |-> reason]

\* Document::prepare_sync
\* A prepare loop that stops at the first rejected candidate.
PrepareFromFailFast(f, root, paths, i, invalid) ==
    IF \E j \in i..Len(paths) : ~validate_path(f, paths[j], root).ok
    THEN LET j == CHOOSE j \in i..Len(paths) :
                     /\ ~validate_path(f, paths[j], root).ok
                     /\ \A h \in i..(j - 1) : validate_path(f, paths[h], root).ok
         IN Append(invalid,
                   InvalidReference(paths[j], validate_path(f, paths[j], root).error))
    ELSE invalid

RECURSIVE PrepareFrom(_, _, _, _, _)
PrepareFrom(f, root, paths, i, invalid) ==
    IF i > Len(paths) THEN invalid
    ELSE LET v == validate_path(f, paths[i], root)
         IN PrepareFrom(f, root, paths, i + 1,
                IF v.ok THEN invalid
                ELSE Append(invalid, InvalidReference(paths[i], v.error)))

prepare_sync(f, doc) ==
    IF ~project_root(doc).ok
    THEN <<InvalidReference(<<"<unknown>">>, "NotFound")>>
    ELSE PrepareFrom(f, project_root(doc).value, extract_paths(doc.body), 1, <<>>)

\* Local::now().format("%Y-%m-%d")
format_date(day) == <<"2", "0", "2", "5", "-", "0", "1", "-", "0", HexDigits[day + 1]>>

\* A sync loop that stores the whole digest of a file, not its first seven
\* characters.
RECURSIVE SyncFromFullDigest(_, _, _, _, _, _)
SyncFromFullDigest(f, root, paths, i, new_references, invalid) ==
    IF i > Len(paths)
    THEN Ok([new_references |-> new_references, invalid |-> invalid])
    ELSE LET v == validate_path(f, paths[i], root)
         IN IF v.ok
            THEN LET content == read(f, join(root, v.value))
                 IN IF ~content.ok THEN Err("Io")
                    ELSE SyncFromFullDigest(f, root, paths, i + 1,
                            [k \in DOMAIN new_references \cup {v.value} |->
                                IF k = v.value THEN Sha256Hex(content.value)
                                ELSE new_references[k]],
                            invalid)
            ELSE SyncFromFullDigest(f, root, paths, i + 1, new_references,
                          Append(invalid, InvalidReference(paths[i], v.error)))

\* The loop of Document::sync over the extracted paths: the new reference
\* map and the rejections, or the I/O error of the first failed read.
RECURSIVE SyncFrom(_, _, _, _, _, _)
SyncFrom(f, root, paths, i, new_references, invalid) ==
    IF i > Len(paths)
    THEN Ok([new_references |-> new_references, invalid |-> invalid])
    ELSE LET v == validate_path(f, paths[i], root)
         IN IF v.ok
            THEN LET content == read(f, join(root, v.value))
                 IN IF ~content.ok THEN Err("Io")
                    ELSE SyncFrom(f, root, paths, i + 1,
                            [k \in DOMAIN new_references \cup {v.value} |->
                                IF k = v.value THEN hash(content.value)
                                ELSE new_references[k]],
                            invalid)
            ELSE SyncFrom(f, root, paths, i + 1, new_references,
                          Append(invalid, InvalidReference(paths[i], v.error)))

\* The InvalidReferences error Document::sync builds.
InvalidReferences(count, documents) ==
    [kind |-> "InvalidReferences", count |-> count, documents |-> documents]

\* A sync that adds the new references to the ones the document held.
sync_merging(f, doc, day, writable) ==
    LET unchanged(e) == [doc |-> doc, written |-> FALSE, result |-> Err(e)]
    IN IF ~project_root(doc).ok THEN unchanged([kind |-> "SyncError"])
       ELSE LET r == SyncFrom(f, project_root(doc).value,
                              extract_paths(doc.body), 1, NoRefs, <<>>)
            IN IF ~r.ok THEN unchanged([kind |-> "IoError"])
               ELSE IF r.value.invalid # <<>>
               THEN unchanged(InvalidReferences(1, << <<doc.path, r.value.invalid>> >>))
               ELSE LET new == [doc EXCEPT
                                   !.references = r.value.new_references @@ @,
                                   !.updated = format_date(day)]
                    IN [doc |-> new, written |-> writable,
                        result |-> IF writable THEN Ok("unit")
                                   ELSE Err([kind |-> "IoError"])]

\* A sync that records and saves the valid candidates before it reports the
\* rejected ones.
sync_partial(f, doc, day, writable) ==
    LET unchanged(e) == [doc |-> doc, written |-> FALSE, result |-> Err(e)]
    IN IF ~project_root(doc).ok THEN unchanged([kind |-> "SyncError"])
       ELSE LET r == SyncFrom(f, project_root(doc).value,
                              extract_paths(doc.body), 1, NoRefs, <<>>)
            IN IF ~r.ok THEN unchanged([kind |-> "IoError"])
               ELSE LET new == [doc EXCEPT !.references = r.value.new_references,
                                           !.updated = format_date(day)]
                    IN [doc |-> new, written |-> writable,
                        result |-> IF r.value.invalid # <<>>
                                   THEN Err(InvalidReferences(
                                            1, << <<doc.path, r.value.invalid>> >>))
                                   ELSE IF writable THEN Ok("unit")
                                   ELSE Err([kind |-> "IoError"])]

\* Document::sync on doc, with the filesystem f, the local date day and
\* writable telling whether the backing file can be written:
\* the document afterwards, the file text written (if any) and the result.
sync(f, doc, day, writable) ==
    LET unchanged(e) == [doc |-> doc, written |-> FALSE, result |-> Err(e)]
    IN IF ~project_root(doc).ok THEN unchanged([kind |-> "SyncError"])
       ELSE LET r == SyncFrom(f, project_root(doc).value,
                              extract_paths(doc.body), 1, NoRefs, <<>>)
            IN IF ~r.ok THEN unchanged([kind |-> "IoError"])
               ELSE IF r.value.invalid # <<>>
               THEN unchanged(InvalidReferences(1, << <<doc.path, r.value.invalid>> >>))
               ELSE LET new == [doc EXCEPT !.references = r.value.new_references,
                                           !.updated = format_date(day)]
                    IN IF writable
                       THEN [doc |-> new, written |-> TRUE, result |-> Ok("unit")]
                       ELSE [doc |-> new, written |-> FALSE,
                             result |-> Err([kind |-> "IoError"])]

\* Validation::new
Validation(path, status) ==
    [path |-> path, status |-> status, changed |-> <<>>, missing |-> <<>>]

\* A validate in which a changed reference turns Orphaned back to Stale.
on_changed_not_sticky(validation, ref_path) ==
    [validation EXCEPT !.changed = Append(@, ref_path), !.status = "Stale"]

\* A validate that marks the document Stale without listing the reference.
on_changed_unlisted(validation, ref_path) ==
    [validation EXCEPT !.status = IF @ # "Orphaned" THEN "Stale" ELSE @]

\* A validate that lists a missing reference without marking the document.
on_missing_unmarked(validation, ref_path) ==
    [validation EXCEPT !.missing = Append(@, ref_path)]

\* Document::validate, a reference whose current hash differs: add_changed,
\* and Stale unless the status is Orphaned already.
on_changed(validation, ref_path) ==
    [validation EXCEPT !.changed = Append(@, ref_path),
                       !.status = IF @ # "Orphaned" THEN "Stale" ELSE @]

\* Document::validate, a reference that does not exist: add_missing, Orphaned.
on_missing(validation, ref_path) ==
    [validation EXCEPT !.missing = Append(@, ref_path), !.status = "Orphaned"]

\* The loop of Document::validate, visiting the references in `order`
\* (HashMap iteration order is arbitrary).
RECURSIVE ValidateFrom(_, _, _, _, _)
ValidateFrom(f, doc, order, i, validation) ==
    IF i > Len(order) THEN Ok(validation)
    ELSE LET ref_path == order[i]
             stored_hash == doc.references[ref_path]
             resolved_path == resolve_ref_path(doc, ref_path)
         IN IF exists(f, resolved_path)
            THEN LET content == read(f, resolved_path)
                 IN IF ~content.ok THEN Err([kind |-> "IoError"])
                    ELSE IF hash(content.value) # stored_hash
                    THEN ValidateFrom(f, doc, order, i + 1,
                                      on_changed(validation, ref_path))
                    ELSE ValidateFrom(f, doc, order, i + 1, validation)
            ELSE ValidateFrom(f, doc, order, i + 1,
                              on_missing(validation, ref_path))

\* Document::validate
validate(f, doc, order) ==
    ValidateFrom(f, doc, order, 1, Validation(doc.path, "Valid"))

\* The orders a HashMap with the keys S can be iterated in.
Orders(S) ==
    {o \in [1..Cardinality(S) -> S] : \A i, j \in DOMAIN o : o[i] = o[j] => i = j}

\* RandomState: the random keys HashMap::new() draws for a new map.
Seeds == 0..MaxSeed

\* The order in which a HashMap made with the random keys `seed` visits
\* its keys S: the seeds 0, 1, 2, ... stand for the ascending order, the
\* descending order, and their rotations.
IterOrder(S, seed) ==
    LET sorted == SortedSeq(S)
        n == Len(sorted)
        rotated == [i \in 1..n |-> sorted[((i - 1 + (seed \div 2)) % n) + 1]]
    IN IF n = 0 THEN <<>>
       ELSE IF seed % 2 = 0 THEN rotated
       ELSE [i \in 1..n |-> rotated[n + 1 - i]]

\* Document::save: the text written for a document whose references map
\* was made with the random keys `seed`.
save(document, seed) ==
    serialize(document, IterOrder(DOMAIN document.references, seed))

----------------------------------------------------------------------------
(* Cache: core/cache.rs                                                     *)

\* SyncResult::new
SyncResult == [count |-> 0, updated |-> <<>>, failed |-> <<>>]

\* The files WalkDir can yield, in each order it can yield them.
Walks(dsk) == Orders({d \in DOMAIN dsk : dsk[d] # NoFile})

\* The loop of Cache::load over the walked files: each ".md" file is parsed
\* and pushed; the first parse error is returned with the documents pushed
\* so far.
RECURSIVE LoadFrom(_, _, _, _)
LoadFrom(dsk, walk, i, docs) ==
    IF i > Len(walk) THEN [documents |-> docs, result |-> Ok("unit")]
    ELSE IF extension(walk[i]) # ".md" THEN LoadFrom(dsk, walk, i + 1, docs)
    ELSE LET doc == parse(walk[i], dsk[walk[i]])
         IN IF ~doc.ok THEN [documents |-> docs, result |-> Err(doc.error)]
            ELSE LoadFrom(dsk, walk, i + 1, Append(docs, doc.value))

\* A load that pushes onto the documents the cache holds.
load_appending(docs, dsk, walk) == LoadFrom(dsk, walk, 1, docs)

\* Cache::load: self.documents.clear(), then the walk.
load(docs, dsk, walk) == LoadFrom(dsk, walk, 1, <<>>)

\* The loop of Cache::status: validate every document, stop at the first error.
RECURSIVE StatusFrom(_, _, _, _, _)
StatusFrom(f, docs, orders, i, results) ==
    IF i > Len(docs) THEN Ok(results)
    ELSE LET v == validate(f, docs[i], orders[i])
         IN IF ~v.ok THEN v
            ELSE StatusFrom(f, docs, orders, i + 1, Append(results, v.value))

\* The Display text of the error a failed Document::sync leaves in `failed`.
FailedEntry(path, e) == <<path, e.kind>>

\* The loops of Cache::sync: Document::sync on every document the target
\* selects, in order (the first match only for a given target); `failing`
\* are the backing files whose write fails and `seed` the random keys of
\* the maps the call makes.
RECURSIVE SyncLoop(_, _, _, _, _, _, _, _, _)
SyncLoop(f, day, target, failing, seed, docs, dsk, i, result) ==
    IF i > Len(docs) THEN [documents |-> docs, disk |-> dsk, result |-> result]
    ELSE IF target.ok /\ docs[i].path # target.value
    THEN SyncLoop(f, day, target, failing, seed, docs, dsk, i + 1, result)
    ELSE LET r == sync(f, docs[i], day, docs[i].path \notin failing)
             docs2 == [docs EXCEPT ![i] = r.doc]
             dsk2 == IF r.written
                     THEN [dsk EXCEPT ![r.doc.path] = save(r.doc, seed)]
                     ELSE dsk
             result2 == IF r.result.ok
                        THEN [result EXCEPT !.count = @ + 1,
                                            !.updated = Append(@, r.doc.path)]
                        ELSE [result EXCEPT
                                !.failed = Append(@, FailedEntry(r.doc.path,
                                                                 r.result.error))]
         IN IF target.ok
            THEN [documents |-> docs2, disk |-> dsk2, result |-> result2]
            ELSE SyncLoop(f, day, target, failing, seed, docs2, dsk2, i + 1,
                          result2)

\* A Cache::sync that restores every backing file when a document failed.
cache_sync_rollback(f, day, target, failing, seed, docs, dsk) ==
    LET r == SyncLoop(f, day, target, failing, seed, docs, dsk, 1, SyncResult)
    IN IF r.result.failed # <<>> THEN [r EXCEPT !.disk = dsk] ELSE r

\* A Cache::sync that runs over every document whatever the target.
cache_sync_all(f, day, target, failing, seed, docs, dsk) ==
    SyncLoop(f, day, Err("None"), failing, seed, docs, dsk, 1, SyncResult)

\* Cache::sync
cache_sync(f, day, target, failing, seed, docs, dsk) ==
    SyncLoop(f, day, target, failing, seed, docs, dsk, 1, SyncResult)

\* ContextError::DocumentNotFound
DocumentNotFound(path) == [kind |-> "DocumentNotFound", path |-> path]

\* Cache::validate: the first document at the target location, or every
\* document when no target is given.
cache_validate(f, docs, orders, target) ==
    IF ~target.ok THEN StatusFrom(f, docs, orders, 1, <<>>)
    ELSE IF \E i \in DOMAIN docs : docs[i].path = target.value
    THEN LET i == CHOOSE i \in DOMAIN docs :
                     /\ docs[i].path = target.value
                     /\ \A j \in 1..(i - 1) : docs[j].path # target.value
             v == validate(f, docs[i], orders[i])
         IN IF ~v.ok THEN v ELSE Ok(<<v.value>>)
    ELSE Err(DocumentNotFound(target.value))

----------------------------------------------------------------------------
(* The state machine                                                        *)

VARIABLES
    fs,         \* the filesystem outside the cache: location -> kind
    disk,       \* the backing file of every document: path -> file text
    documents,  \* Cache.documents
    today,      \* the local calendar date
    last,       \* the operation of the last step, what it returned, and
                \* (after) what the step before it had just done
    scanner,    \* Path Scanner alone: a body and extract_paths of it
    validator   \* Path Validator alone: a candidate and validate_path of it

vars == <<fs, disk, documents, today, last, scanner, validator>>

\* Document bodies.
Quoted(path) == <<TICK>> \o path \o <<TICK>>
PathAB == <<"a", "/", "b">>
PathDotB == <<".", "/", "b">>
PathAG == <<"a", "/", "g">>
PathUpB == <<".", ".", "/", "b">>
PathDotSlashTwiceB == <<".", "/", ".", "/", "/", "b">>
Fence == <<TICK, TICK, TICK>>

\* Two files mentioned in the text and a missing one inside a fenced region.
BodyTwo == Quoted(PathAB) \o <<" ">> \o Quoted(PathDotB) \o <<NL>> \o Fence \o <<NL>>
              \o Quoted(PathAG) \o <<NL>> \o Fence \o <<NL>>
BodyMixed == Quoted(PathAB) \o <<" ">> \o Quoted(PathUpB)
BodyNone == <<"g">>
BodyOutside == Quoted(PathDotSlashTwiceB)
BodyDotB == Quoted(PathDotB) \o <<NL>>

Bodies2 == {BodyDotB}

\* References a hand-written metadata block may hold before the first sync:
\* none, or one to the directory a.
OldRefs == [k \in {<<"a">>} |-> hash(1)]

\* What d1.md holds at first: a body and the references of its metadata block.
Drafts1 ==
    {<<BodyTwo, NoRefs>>, <<BodyTwo, OldRefs>>, <<BodyMixed, OldRefs>>,
     <<BodyNone, OldRefs>>, <<BodyOutside, NoRefs>>}

InitFs ==
    [n \in Nodes |-> IF n \in {FsRoot, ProjectRoot, DirA} THEN Dir ELSE File(0)]

\* What `last.after` says when the step before was no sync or external change.
Nothing == [kind |-> "nothing", docs |-> {}, node |-> <<>>]
JustSynced(docs) == [kind |-> "synced", docs |-> docs, node |-> <<>>]
JustChanged(kind, docs, n) == [kind |-> kind, docs |-> docs, node |-> n]

ScannerIdle == [body |-> <<>>, paths |-> <<>>]
ValidatorIdle == [path |-> <<>>, result |-> Err("IsDirectory")]

\* Cache::create over a project in which d1.md has a metadata block and
\* g/d2.md has none.
Init ==
    /\ fs = InitFs
    /\ \E d1 \in Drafts1, b2 \in Bodies2 :
         disk = [d \in DocPaths |->
                    IF d = Doc1
                    THEN FileWithFm(<<"d1">>, <<>>, d1[2], <<>>, <<NL>> \o d1[1])
                    ELSE PlainFile(b2)]
    /\ documents = <<>>
    /\ today = 1
    /\ last = [op |-> "create", after |-> Nothing]
    /\ scanner = ScannerIdle
    /\ validator = ValidatorIdle

\* The documents the step before this one synced successfully.
SyncedBefore ==
    IF last.op = "doc_sync" /\ last.result.ok THEN {last.doc}
    ELSE IF last.op = "cache_sync" THEN Range(last.result.value.updated)
    ELSE {}

\* The locations of the documents the cache holds.
Held == {documents[i].path : i \in DOMAIN documents}

\* Cache::load; WalkDir yields the files in directory order.
Load ==
    \E walk \in Walks(disk) :
    \E r \in {load(documents, disk, walk)} :
        /\ documents' = r.documents
        /\ last' = [op |-> "load", result |-> r.result,
                    after |-> IF documents = <<>> THEN Nothing
                              ELSE JustChanged("reloaded", Held, <<>>)]
        /\ UNCHANGED <<fs, disk, today, scanner, validator>>

\* A status that stamps every document it has validated.
StatusStamping ==
    \E orders \in [DOMAIN documents ->
                      UNION {Orders(DOMAIN documents[i].references) :
                                i \in DOMAIN documents}] :
        /\ \A i \in DOMAIN documents :
              orders[i] \in Orders(DOMAIN documents[i].references)
        /\ last' = [op |-> "status",
                    result |-> StatusFrom(fs, documents, orders, 1, <<>>),
                    after |-> Nothing]
        /\ documents' = [i \in DOMAIN documents |->
                            [documents[i] EXCEPT !.updated = <<"checked">>]]
        /\ UNCHANGED <<fs, disk, today, scanner, validator>>

\* Cache::status
Status ==
    \E orders \in [DOMAIN documents ->
                      UNION {Orders(DOMAIN documents[i].references) :
                                i \in DOMAIN documents}] :
        /\ \A i \in DOMAIN documents :
              orders[i] \in Orders(DOMAIN documents[i].references)
        /\ last' = [op |-> "status",
                    result |-> StatusFrom(fs, documents, orders, 1, <<>>),
                    after |-> IF last.op \in {"write", "delete"} THEN last.after
                              ELSE IF SyncedBefore # {} THEN JustSynced(SyncedBefore)
                              ELSE Nothing]
        /\ UNCHANGED <<fs, disk, documents, today, scanner, validator>>

\* Document::sync called on one loaded document; `seed` are the random
\* keys of the map it makes.
DocSync(i, writable, seed) ==
    \E r \in {sync(fs, documents[i], today, writable)} :
        /\ documents' = [documents EXCEPT ![i] = r.doc]
        /\ disk' = IF r.written
                   THEN [disk EXCEPT ![r.doc.path] = save(r.doc, seed)]
                   ELSE disk
        /\ last' = [op |-> "doc_sync", doc |-> r.doc.path, result |-> r.result,
                    after |-> Nothing]
        /\ UNCHANGED <<fs, today, scanner, validator>>

\* Cache::sync for all documents (target = Err) or one location (Ok).
CacheSync(target, failing, seed) ==
    \E r \in {cache_sync(fs, today, target, failing, seed, documents, disk)} :
        /\ documents' = r.documents
        /\ disk' = r.disk
        /\ last' = [op |-> "cache_sync", target |-> target,
                    failing |-> failing, result |-> Ok(r.result),
                    after |-> Nothing]
        /\ UNCHANGED <<fs, today, scanner, validator>>

\* The loaded documents that hold a reference resolving to the location n.
Referencing(n) ==
    {documents[i].path : i \in
        {j \in DOMAIN documents :
            \E k \in DOMAIN documents[j].references :
                Lookup(fs, resolve_ref_path(documents[j], k)) = Ok(n)}}

\* Local::now() moves on to the next day.
Tick ==
    /\ today < MaxDay
    /\ today' = today + 1
    /\ last' = [op |-> "tick", after |-> Nothing]
    /\ UNCHANGED <<fs, disk, documents, scanner, validator>>

\* A source file is written by another program.
ExternalWrite(n, c) ==
    /\ fs[Parent(n)] = Dir
    /\ fs[n] # Dir
    /\ fs[n] # File(c)
    /\ fs' = [fs EXCEPT ![n] = File(c)]
    /\ last' = [op |-> "write",
                after |-> IF IsFile(fs[n]) /\ hash(fs[n][2]) # hash(c)
                          THEN JustChanged("overwritten",
                                           SyncedBefore \cap Referencing(n), n)
                          ELSE Nothing]
    /\ UNCHANGED <<disk, documents, today, scanner, validator>>

\* A source file is deleted by another program.
ExternalDelete(n) ==
    /\ fs[n] # Absent
    /\ fs' = [fs EXCEPT ![n] = Absent]
    /\ last' = [op |-> "delete",
                after |-> JustChanged("deleted",
                                      SyncedBefore \cap Referencing(n), n)]
    /\ UNCHANGED <<disk, documents, today, scanner, validator>>

\* The maps of this specification are made with the seed 0: the order in
\* which a save writes the references shows in the text of the metadata
\* block only, which parse reads into a map again; SpecSettle goes through
\* every seed.
Next ==
    \/ Load
    \/ Status
    \/ \E i \in DOMAIN documents : DocSync(i, TRUE, 0)
    \/ \E target \in {Err("None")} \cup {Ok(d) : d \in DocPaths} :
           CacheSync(target, {}, 0)
    \/ Tick
    \/ \E n \in SourceFiles, c \in Contents : ExternalWrite(n, c)
    \/ \E n \in SourceFiles : ExternalDelete(n)

Spec == Init /\ [][Next]_vars

----------------------------------------------------------------------------
(* The Path Scanner alone: bodies built token by token                      *)

Tokens == {<<NL>>, <<" ">>, <<TICK>>, Fence, PathAB, Quoted(PathAB), <<".", "/">>}

RECURSIVE Flatten(_)
Flatten(toks) == IF toks = <<>> THEN <<>> ELSE Head(toks) \o Flatten(Tail(toks))

\* The cache is left as constructed over an empty directory.
CacheIdle ==
    /\ fs = InitFs
    /\ disk = [d \in DocPaths |-> PlainFile(<<>>)]
    /\ documents = <<>>
    /\ today = 1
    /\ last = [op |-> "create", after |-> Nothing]

ScanInit ==
    /\ CacheIdle
    /\ scanner = ScannerIdle
    /\ validator = ValidatorIdle

\* One more token of body text, and extract_paths of the body.
TypeToken(t) ==
    /\ Len(scanner.body) < MaxBodyToks
    /\ scanner' = [body |-> Append(scanner.body, t),
                   paths |-> extract_paths(Flatten(Append(scanner.body, t)))]
    /\ UNCHANGED <<fs, disk, documents, today, last, validator>>

NextScan == \E t \in Tokens : TypeToken(t)

SpecScan == ScanInit /\ [][NextScan]_vars

----------------------------------------------------------------------------
(* The Path Validator alone: every candidate over every filesystem          *)

PathChars == {"/", ".", "a", "b"}

\* The filesystems with a project root: the entries exist or not, as files
\* or as directories.
FsStates ==
    {f \in [Nodes -> {Absent, Dir, File(0)}] :
        FsConsistent(f) /\ f[ProjectRoot] = Dir}

PathInit ==
    /\ fs \in FsStates
    /\ disk = [d \in DocPaths |-> PlainFile(<<>>)]
    /\ documents = <<>>
    /\ today = 1
    /\ last = [op |-> "create", after |-> Nothing]
    /\ scanner = ScannerIdle
    /\ validator = [path |-> <<>>, result |-> validate_path(fs, <<>>, ProjectRoot)]

\* One more character of the candidate, and validate_path of it.
TypeChar(c) ==
    /\ Len(validator.path) < MaxPathLen
    /\ validator' = [path |-> Append(validator.path, c),
                     result |-> validate_path(fs, Append(validator.path, c),
                                              ProjectRoot)]
    /\ UNCHANGED <<fs, disk, documents, today, last, scanner>>

NextPath == \E c \in PathChars : TypeChar(c)

SpecPath == PathInit /\ [][NextPath]_vars

----------------------------------------------------------------------------
(* Claims about the Path Validator, checked under SpecPath                  *)

\* The entry the candidate names once a leading "./" is stripped.
StrippedEntry == join(ProjectRoot, normalize_path(validator.path))

\* C8: validate_path applies the rules Absolute, ParentTraversal, NotFound,
\* IsDirectory in this order and the first match wins.  A candidate that
\* starts with "/" is Absolute and one that does not but contains ".." is
\* ParentTraversal, in every filesystem; only a candidate that does neither
\* is looked up, with one leading "./" stripped: NotFound if nothing is
\* there, IsDirectory if a directory is, and otherwise accepted as the
\* stripped path.
C8_RuleOrder ==
    LET path == validator.path
        absolute == path # <<>> /\ path[1] = "/"
        traversal == \E i \in 1..(Len(path) - 1) : path[i] = "." /\ path[i + 1] = "."
    IN /\ absolute => validator.result = Err("Absolute")
       /\ ~absolute /\ traversal => validator.result = Err("ParentTraversal")
       /\ ~absolute /\ ~traversal =>
            /\ ~Lookup(fs, StrippedEntry).ok => validator.result = Err("NotFound")
            /\ Lookup(fs, StrippedEntry).ok =>
                 IF fs[Lookup(fs, StrippedEntry).value] = Dir
                 THEN validator.result = Err("IsDirectory")
                 ELSE validator.result = Ok(normalize_path(path))

\* C8 happens: the candidate "../b" is ParentTraversal although the entry
\* it would reach exists.
C8_Witness ==
    /\ validator.path = PathUpB
    /\ fs[OutsideB] = File(0)
    /\ validator.result = Err("ParentTraversal")

----------------------------------------------------------------------------
(* Claims about the Path Scanner, checked under SpecScan                    *)

ScannedLines == lines(Flatten(scanner.body))

\* Line k lies inside a fenced region: it is no fence line and an odd number
\* of fence lines (lines whose leading-whitespace-trimmed text starts with
\* three backticks) precede it.
InsideFence(ls, k) ==
    /\ ~IsFenceLine(ls[k])
    /\ Cardinality({j \in 1..(k - 1) : IsFenceLine(ls[j])}) % 2 = 1

\* C10: a path mentioned only on lines inside a fenced region never appears
\* in extract_paths(body), whatever backticks those lines contain: every
\* path extract_paths returns is mentioned in a backtick span of a line that
\* is not inside a fenced region.
C10_FencedNeverScanned ==
    \A p \in Range(scanner.paths) :
        \E k \in DOMAIN ScannedLines :
            /\ ~InsideFence(ScannedLines, k)
            /\ p \in extract_backtick_paths(ScannedLines[k], {})

\* C10 happens: a line inside a closed fenced region holds a backtick span
\* with a path in it, and extract_paths returns nothing.
C10_Witness ==
    /\ scanner.paths = <<>>
    /\ \E k \in DOMAIN ScannedLines :
          /\ InsideFence(ScannedLines, k)
          /\ \E j \in (k + 1)..Len(ScannedLines) : IsFenceLine(ScannedLines[j])
          /\ extract_backtick_paths(ScannedLines[k], {}) # {}

----------------------------------------------------------------------------
(* Claims about Document and Cache, checked under Spec                      *)

\* The loaded document at a location.
Loaded(path) == {i \in DOMAIN documents : documents[i].path = path}

\* The candidates of a document the validator rejects now.
Rejected(doc) == prepare_sync(fs, doc)

\* The step just taken was Cache::sync over all documents, at least one of
\* which had a rejected candidate (a failed sync leaves bodies and source
\* files alone, so the rejections are the same before and after the step).
BatchWithRejection ==
    /\ last'.op = "cache_sync"
    /\ ~last'.target.ok
    /\ \E i \in DOMAIN documents : Rejected(documents[i]) # <<>>

\* C1: when a document of the batch has a rejected candidate, Cache::sync
\* writes no document of the batch: the references and the updated date in
\* every backing file are what they were before the call.
C1_BatchAtomic ==
    [][BatchWithRejection =>
          \A d \in DocPaths :
              /\ disk'[d].references = disk[d].references
              /\ disk'[d].updated = disk[d].updated]_vars

\* The offending documents of the batch, each with its rejections.
Offending ==
    {<<documents[i].path, Rejected(documents[i])>> :
        i \in {j \in DOMAIN documents : Rejected(documents[j]) # <<>>}}

\* C2: Cache::sync over a batch with a rejected candidate returns the
\* InvalidReferences error, which lists exactly the offending documents with
\* their rejections; its count is their number.
C2_BatchError ==
    (last.op = "cache_sync" /\ ~last.target.ok /\ Offending # {}) =>
        /\ ~last.result.ok
        /\ last.result.error.kind = "InvalidReferences"
        /\ Range(last.result.error.documents) = Offending
        /\ last.result.error.count = Cardinality(Offending)

\* C3: after a successful Document::sync the references are exactly
\* normalized path -> 7-character fingerprint of the current bytes, for the
\* paths the scanner finds in the body; nothing else is kept; updated is the
\* current local date; and the backing file holds the same map and date.
C3_SyncReplacesReferences ==
    (last.op = "doc_sync" /\ last.result.ok) =>
        \A i \in Loaded(last.doc) :
            LET doc == documents[i]
                keys == {normalize_path(p) : p \in Range(extract_paths(doc.body))}
            IN /\ DOMAIN doc.references = keys
               /\ \A k \in keys :
                     LET bytes == read(fs, join(ProjectRoot, k))
                     IN /\ bytes.ok
                        /\ doc.references[k] = hash(bytes.value)
                        /\ Len(doc.references[k]) = 7
               /\ doc.updated = format_date(today)
               /\ disk[doc.path].fm
               /\ disk[doc.path].references = doc.references
               /\ disk[doc.path].updated = doc.updated

\* C3 happens: on the second day a sync succeeded on a body that mentions
\* two files.
C3_Witness ==
    /\ last.op = "doc_sync" /\ last.result.ok
    /\ \E i \in Loaded(last.doc) :
          /\ Cardinality(DOMAIN documents[i].references) = 2
          /\ documents[i].updated = format_date(2)
          /\ disk[Doc1].rest = <<NL>> \o BodyTwo

\* C4: a Document::sync on a body with a rejected candidate returns the
\* InvalidReferences error and leaves the document and its backing file as
\* they were, also when other candidates of the body are valid.
C4_FailedSyncUntouched ==
    [][\A i \in DOMAIN documents :
          (/\ last'.op = "doc_sync"
           /\ last'.doc = documents[i].path
           /\ Rejected(documents[i]) # <<>>)
          => /\ ~last'.result.ok
             /\ last'.result.error.kind = "InvalidReferences"
             /\ documents' = documents
             /\ disk' = disk]_vars

\* C4 happens: a sync was refused for one candidate of a body that has a
\* valid candidate too.
C4_Witness ==
    /\ last.op = "doc_sync" /\ ~last.result.ok
    /\ last.result.error.kind = "InvalidReferences"
    /\ \E i \in Loaded(last.doc) :
          /\ documents[i].body = BodyMixed
          /\ Len(last.result.error.documents[1][2]) = 1
          /\ validate_path(fs, PathAB, ProjectRoot).ok

\* The references of a document that name nothing, and those that name a
\* file whose fingerprint is not the stored one.
MissingRefs(doc) ==
    {k \in DOMAIN doc.references : ~Lookup(fs, resolve_ref_path(doc, k)).ok}
ChangedRefs(doc) ==
    {k \in DOMAIN doc.references \ MissingRefs(doc) :
        LET bytes == read(fs, resolve_ref_path(doc, k))
        IN bytes.ok /\ hash(bytes.value) # doc.references[k]}

\* A sequence that lists exactly the elements of S, each once.
Lists(seq, S) == Range(seq) = S /\ Len(seq) = Cardinality(S)

\* C5: in whatever order the references are visited, the status validate
\* returns is Orphaned iff a referenced file does not exist, Stale iff all
\* exist and one has another fingerprint than the stored one, Valid
\* otherwise; missing lists the references that do not exist and changed
\* the existing ones whose fingerprint differs.
C5_StatusOfValidate ==
    (last.op = "status" /\ last.result.ok) =>
        \A i \in DOMAIN documents :
            LET v == last.result.value[i]
                doc == documents[i]
            IN /\ v.path = doc.path
               /\ v.status = "Orphaned" <=> MissingRefs(doc) # {}
               /\ v.status = "Stale" <=>
                     (MissingRefs(doc) = {} /\ ChangedRefs(doc) # {})
               /\ v.status = "Valid" <=>
                     (MissingRefs(doc) = {} /\ ChangedRefs(doc) = {})
               /\ Lists(v.missing, MissingRefs(doc))
               /\ Lists(v.changed, ChangedRefs(doc))

\* C5 happens: a document has a missing and a changed reference, and the
\* changed one was visited after the missing one or before it.
C5_Witness ==
    /\ last.op = "status" /\ last.result.ok
    /\ \E i \in DOMAIN documents :
          /\ last.result.value[i].status = "Orphaned"
          /\ last.result.value[i].missing = <<PathAB>>
          /\ last.result.value[i].changed = <<<<"b">>>>

\* The reference of doc that names the location n, were n a file.
KeysFor(doc, n) ==
    {k \in DOMAIN doc.references :
        Lookup([fs EXCEPT ![n] = File(0)], resolve_ref_path(doc, k)) = Ok(n)}

\* status() ran right after the external change `kind` to a file that a
\* just synced document references, and returned a report.
StatusAfter(kind) ==
    /\ last.op = "status"
    /\ last.after.kind = kind
    /\ last.after.docs # {}
    /\ last.result.ok

\* C6: after a successful sync of a document that references f, once f is
\* overwritten with content of a different fingerprint and nothing else
\* happens, the report of the next status() has the document Stale with
\* changed = [f] and missing empty.
C6_OverwrittenIsStale ==
    StatusAfter("overwritten") =>
        \A i \in DOMAIN documents :
            documents[i].path \in last.after.docs =>
                LET v == last.result.value[i]
                IN /\ v.status = "Stale"
                   /\ Lists(v.changed, KeysFor(documents[i], last.after.node))
                   /\ Len(v.changed) = 1
                   /\ v.missing = <<>>

\* C6 happens: status() reported on a document with two references after
\* one of the two files was overwritten.
C6_Witness ==
    /\ StatusAfter("overwritten")
    /\ \E i \in DOMAIN documents :
          /\ documents[i].path \in last.after.docs
          /\ Cardinality(DOMAIN documents[i].references) = 2

\* C7: after a successful sync of a document that references f, once f is
\* deleted and nothing else happens, the report of the next status() has
\* the document Orphaned with missing = [f] and changed empty.
C7_DeletedIsOrphaned ==
    StatusAfter("deleted") =>
        \A i \in DOMAIN documents :
            documents[i].path \in last.after.docs =>
                LET v == last.result.value[i]
                IN /\ v.status = "Orphaned"
                   /\ Lists(v.missing, KeysFor(documents[i], last.after.node))
                   /\ Len(v.missing) = 1
                   /\ v.changed = <<>>

\* C7 happens: status() reported on a document with two references after
\* one of the two files was deleted.
C7_Witness ==
    /\ StatusAfter("deleted")
    /\ \E i \in DOMAIN documents :
          /\ documents[i].path \in last.after.docs
          /\ Cardinality(DOMAIN documents[i].references) = 2

\* C9: every key of the references of every loaded document is relative to
\* the project root: it does not start with "/", has no ".." segment, and
\* right after a successful sync of the document it names an existing file.
C9_KeysRootRelative ==
    \A i \in DOMAIN documents :
        \A k \in DOMAIN documents[i].references :
            /\ ~StartsWith(k, <<"/">>)
            /\ <<".", ".">> \notin Range(SplitSlash(k))
            /\ (last.op = "doc_sync" /\ last.result.ok
                    /\ last.doc = documents[i].path)
               => read(fs, join(ProjectRoot, k)).ok

----------------------------------------------------------------------------
(* The Path Scanner alone: bodies built mention by mention                  *)

DotSlash == <<".", "/">>

\* A path written with k leading "./".
RECURSIVE Prefixed(_, _)
Prefixed(k, path) == IF k = 0 THEN path ELSE DotSlash \o Prefixed(k - 1, path)

Mentions == {Prefixed(k, path) : k \in 0..MaxDotSlash, path \in {PathAB, PathAG}}

\* The number of backticks of a text.
RECURSIVE Ticks(_)
Ticks(s) ==
    IF s = <<>> THEN 0 ELSE (IF Head(s) = TICK THEN 1 ELSE 0) + Ticks(Tail(s))

\* One more single-backtick mention followed by a space or a newline, and
\* extract_paths of the body.
TypeMention(m, sep) ==
    /\ Ticks(scanner.body) < 2 * MaxMentions
    /\ scanner' = [body |-> scanner.body \o Quoted(m) \o sep,
                   paths |-> extract_paths(scanner.body \o Quoted(m) \o sep)]
    /\ UNCHANGED <<fs, disk, documents, today, last, validator>>

NextMention == \E m \in Mentions, sep \in {<<" ">>, <<NL>>} : TypeMention(m, sep)

SpecMention == ScanInit /\ [][NextMention]_vars

----------------------------------------------------------------------------
(* Claims about the Path Scanner, checked under SpecMention                 *)

\* A path without any leading "./".
RECURSIVE Bare(_)
Bare(path) ==
    IF StartsWith(path, DotSlash) THEN Bare(SubSeq(path, 3, Len(path))) ELSE path

\* C11: extract_paths returns a strictly increasing sequence, and two
\* mentions that differ only by a leading "./" collapse to a single entry,
\* which has no leading "./".
C11_SortedAndCollapsed ==
    LET paths == scanner.paths
    IN /\ \A i \in 1..(Len(paths) - 1) : StrLess(paths[i], paths[i + 1])
       /\ \A m \in Mentions :
             (Contains(scanner.body, Quoted(m))
                 /\ Contains(scanner.body, Quoted(DotSlash \o m)))
             => \E e \in Range(paths) :
                   /\ ~StartsWith(e, DotSlash)
                   /\ {x \in Range(paths) : Bare(x) = Bare(m)} = {e}

\* The result of a scan written back as text: each element in a
\* single-backtick span on a line of its own.
RECURSIVE Rewritten(_)
Rewritten(paths) ==
    IF paths = <<>> THEN <<>>
    ELSE Quoted(Head(paths)) \o <<NL>> \o Rewritten(Tail(paths))

\* C12: the result of extract_paths is a fixed point under re-scanning:
\* scanning the result written as single-backtick spans, one per line,
\* returns the same result.
C12_RescanFixedPoint ==
    extract_paths(Rewritten(scanner.paths)) = scanner.paths

----------------------------------------------------------------------------
(* Cache::load over a cache directory that other programs change            *)

\* What a file under the cache root may hold: no metadata block, a metadata
\* block, or a metadata block without slug.
DocFiles ==
    {PlainFile(BodyDotB),
     FileWithFm(<<"s">>, <<>>, NoRefs, <<>>, <<NL>> \o BodyNone),
     FileWithFm(NoSlug, <<>>, NoRefs, <<>>, <<NL>> \o BodyNone)}

LoadInit ==
    /\ fs = InitFs
    /\ disk = [d \in CacheFiles |-> NoFile]
    /\ documents = <<>>
    /\ today = 1
    /\ last = [op |-> "create", after |-> Nothing]
    /\ scanner = ScannerIdle
    /\ validator = ValidatorIdle

\* Another program writes a file under the cache root.
ExternalWriteDoc(d, file) ==
    /\ disk[d] # file
    /\ disk' = [disk EXCEPT ![d] = file]
    /\ last' = [op |-> "write_doc", after |-> Nothing]
    /\ UNCHANGED <<fs, documents, today, scanner, validator>>

\* Another program removes a file under the cache root.
ExternalRemoveDoc(d) ==
    /\ disk[d] # NoFile
    /\ disk' = [disk EXCEPT ![d] = NoFile]
    /\ last' = [op |-> "remove_doc", after |-> Nothing]
    /\ UNCHANGED <<fs, documents, today, scanner, validator>>

NextLoad ==
    \/ Load
    \/ \E d \in CacheFiles, file \in DocFiles : ExternalWriteDoc(d, file)
    \/ \E d \in CacheFiles : ExternalRemoveDoc(d)

SpecLoad == LoadInit /\ [][NextLoad]_vars

----------------------------------------------------------------------------
(* Claims about Cache::load, checked under SpecLoad                         *)

\* The markdown files under the cache root.
MdFiles == {d \in DOMAIN disk : disk[d] # NoFile /\ extension(d) = ".md"}

\* C13: after a successful Cache::load, whatever the cache held before,
\* documents has exactly one entry for each ".md" file now under the root
\* and none for any other location; a second load replaces the result of
\* the first.
C13_LoadReplaces ==
    (last.op = "load" /\ last.result.ok) =>
        /\ Held = MdFiles
        /\ Len(documents) = Cardinality(MdFiles)
        /\ \A i \in DOMAIN documents :
              Ok(documents[i]) = parse(documents[i].path, disk[documents[i].path])

\* C13 happens: a load succeeded on a cache that held a document whose file
\* is gone, next to a file that is no markdown file.
C13_Witness ==
    /\ last.op = "load" /\ last.result.ok
    /\ last.after.kind = "reloaded"
    /\ last.after.docs \ MdFiles # {}
    /\ documents # <<>>
    /\ disk[Note] # NoFile

\* C14: when a file fails to parse during Cache::load, load returns an error
\* and the cache is not left partially populated: it holds what it held
\* before the call or nothing, not the documents walked before the failing
\* file.
C14_NoPartialLoad ==
    [][(last'.op = "load" /\ ~last'.result.ok) =>
          (documents' = documents \/ documents' = <<>>)]_vars

----------------------------------------------------------------------------
(* More claims about Cache::sync, checked under Spec                        *)

\* C15: Cache::sync with a target operates on exactly the loaded documents
\* at that location: every other loaded document and every other backing
\* file is unchanged, also when the sync of the targeted document fails,
\* and updated and failed mention the target only, once if it is loaded.
C15_TargetedSyncFrame ==
    [][(last'.op = "cache_sync" /\ last'.target.ok) =>
          LET target == last'.target.value
              result == last'.result.value
          IN /\ Len(documents') = Len(documents)
             /\ \A i \in DOMAIN documents :
                   documents[i].path # target => documents'[i] = documents[i]
             /\ \A d \in DOMAIN disk \ {target} : disk'[d] = disk[d]
             /\ Range(result.updated) \subseteq {target}
             /\ \A e \in Range(result.failed) : e[1] = target
             /\ Len(result.updated) + Len(result.failed)
                    = Cardinality({i \in DOMAIN documents :
                                      documents[i].path = target})]_vars

\* C15 happens: the sync of the targeted document failed while another
\* loaded document, never synced, has a mention that would sync.
C15_Witness ==
    /\ last.op = "cache_sync"
    /\ last.target = Ok(Doc1)
    /\ last.result.value.failed # <<>>
    /\ \E i \in DOMAIN documents :
          /\ documents[i].path = Doc2
          /\ documents[i].references = NoRefs
          /\ Rejected(documents[i]) = <<>>
          /\ extract_paths(documents[i].body) # <<>>

----------------------------------------------------------------------------
(* Sync when the write of a backing file can fail                           *)

NextWrite ==
    \/ Load
    \/ \E i \in DOMAIN documents, writable \in BOOLEAN : DocSync(i, writable, 0)
    \/ \E target \in {Err("None")} \cup {Ok(d) : d \in DocPaths},
          failing \in SUBSET DocPaths :
           CacheSync(target, failing, 0)
    \/ Tick

SpecWrite == Init /\ [][NextWrite]_vars

\* The step is a Cache::sync over all documents, none of which has a
\* rejected candidate, in which the write of some backing file fails.
CommitWithWriteFailure ==
    /\ last'.op = "cache_sync"
    /\ ~last'.target.ok
    /\ \A i \in DOMAIN documents : Rejected(documents[i]) = <<>>
    /\ Held \cap last'.failing # {}

\* C16: when every document of the batch passes validation and the write of
\* one fails, Cache::sync still returns a SyncResult; the failing document
\* is in failed and not in updated, and every other document of the batch,
\* before or after it in the order, is written and in updated.
C16_WriteFailureNoRollback ==
    [][CommitWithWriteFailure =>
          LET result == last'.result.value
          IN /\ last'.result.ok
             /\ \A i \in DOMAIN documents :
                   LET d == documents[i].path
                   IN IF d \in last'.failing
                      THEN /\ \E e \in Range(result.failed) : e[1] = d
                           /\ d \notin Range(result.updated)
                           /\ disk'[d] = disk[d]
                      ELSE /\ d \in Range(result.updated)
                           /\ \A e \in Range(result.failed) : e[1] # d
                           /\ \E order \in Orders(DOMAIN documents'[i].references) :
                                 disk'[d] = serialize(documents'[i], order)
                           /\ disk'[d].updated = format_date(today)]_vars

\* C16 happens: the write of the first of two documents failed and the
\* second was committed on a later day than its last sync.
C16_Witness ==
    /\ last.op = "cache_sync" /\ ~last.target.ok
    /\ Len(documents) = 2
    /\ last.failing = {documents[1].path}
    /\ last.result.value.updated = <<documents[2].path>>
    /\ disk[documents[2].path].updated = format_date(2)
    /\ disk[documents[1].path].updated # format_date(2)

----------------------------------------------------------------------------
(* Rejections: prepare_sync and sync of one document over every filesystem  *)

\* The mentions of a body: a file, a directory, a path through the parent,
\* a missing file written with "./", an absolute path.
RejectMentions ==
    {PathAB, <<".", "/", "a">>, PathUpB, DotSlash \o PathAG, <<"/", "b">>}

\* The body that mentions ms, one after the other.
RECURSIVE Mentioning(_)
Mentioning(ms) ==
    IF ms = <<>> THEN <<>>
    ELSE Quoted(Head(ms)) \o <<" ">> \o Mentioning(Tail(ms))

MentionSeqs == UNION {[1..n -> RejectMentions] : n \in 0..MaxMentions}

RejectInit ==
    /\ fs \in FsStates
    /\ \E ms \in MentionSeqs :
          disk = [d \in {Doc1} |->
                     FileWithFm(<<"d1">>, <<>>, NoRefs, <<>>,
                                <<NL>> \o Mentioning(ms))]
    /\ documents = <<>>
    /\ today = 1
    /\ last = [op |-> "create", after |-> Nothing]
    /\ scanner = ScannerIdle
    /\ validator = ValidatorIdle

\* What the call before returned, when it was prepare_sync on the same
\* document.
PreparedBefore(path) ==
    IF last.op = "prepare" /\ last.doc = path THEN Ok(last.result) ELSE Err("None")

\* A prepare_sync that records the fingerprints of the valid candidates in
\* the document and saves it.
PrepareCommitting(i) ==
    \E r \in {sync_partial(fs, documents[i], today, TRUE)} :
        /\ last' = [op |-> "prepare", doc |-> documents[i].path,
                    result |-> prepare_sync(fs, documents[i]),
                    before |-> PreparedBefore(documents[i].path),
                    after |-> Nothing]
        /\ documents' = [documents EXCEPT ![i] = r.doc]
        /\ disk' = [disk EXCEPT ![r.doc.path] = save(r.doc, 0)]
        /\ UNCHANGED <<fs, today, scanner, validator>>

\* Document::prepare_sync called on one loaded document.
Prepare(i) ==
    /\ last' = [op |-> "prepare", doc |-> documents[i].path,
                result |-> prepare_sync(fs, documents[i]),
                before |-> PreparedBefore(documents[i].path),
                after |-> Nothing]
    /\ UNCHANGED <<fs, disk, documents, today, scanner, validator>>

NextReject ==
    \/ Load
    \/ \E i \in DOMAIN documents : Prepare(i)
    \/ \E i \in DOMAIN documents : DocSync(i, TRUE, 0)

SpecReject == RejectInit /\ [][NextReject]_vars

----------------------------------------------------------------------------
(* Claims about rejections, checked under SpecReject                        *)

\* The rejections the last prepare_sync or sync reported, if it reported any.
Reported ==
    IF last.op = "prepare" THEN last.result
    ELSE IF last.op = "doc_sync" /\ ~last.result.ok
            /\ last.result.error.kind = "InvalidReferences"
    THEN last.result.error.documents[1][2]
    ELSE <<>>

\* The candidates of the body the validator rejects, each with its reason.
RejectedCandidates(doc) ==
    {InvalidReference(c, validate_path(fs, c, ProjectRoot).error) :
        c \in {c \in Range(extract_paths(doc.body)) :
                  ~validate_path(fs, c, ProjectRoot).ok}}

\* C17: the failure prepare_sync or sync reports for a document holds
\* exactly the candidates of its body that the validator rejects, each once
\* with its own reason, however many valid candidates stand before or after
\* them; sync fails exactly when there is one.
C17_RejectionsCollected ==
    \A i \in DOMAIN documents :
        (last.op \in {"prepare", "doc_sync"} /\ last.doc = documents[i].path) =>
            /\ Lists(Reported, RejectedCandidates(documents[i]))
            /\ last.op = "doc_sync" =>
                  (last.result.ok <=> RejectedCandidates(documents[i]) = {})

\* C17 happens: two candidates are rejected for different reasons and a
\* valid candidate stands between them.
C17_Witness ==
    /\ last.op = "doc_sync"
    /\ Len(Reported) = 2
    /\ Reported[1].reason # Reported[2].reason
    /\ \E j \in DOMAIN documents :
          LET paths == extract_paths(documents[j].body)
          IN /\ Len(paths) = 3
             /\ validate_path(fs, paths[2], ProjectRoot).ok

\* C18: the path of every InvalidReference is the text as written in the
\* body, before normalization: a rejected mention written with a leading
\* "./" is reported with it.
C18_ReportedAsWritten ==
    \A i \in DOMAIN documents :
        \A r \in Range(Reported) : Contains(documents[i].body, Quoted(r.path))

\* C21: prepare_sync performs no mutation and no writes: whether it returns
\* rejections or none, the fields of every loaded document and every file
\* are as before the call, and a second call on the same state returns the
\* same list as the first.
C21_PrepareReadOnly ==
    [][last'.op = "prepare" =>
          /\ documents' = documents
          /\ disk' = disk
          /\ fs' = fs
          /\ last'.before.ok => last'.result = last'.before.value
          /\ \A i \in DOMAIN documents' :
                documents'[i].path = last'.doc =>
                    prepare_sync(fs', documents'[i]) = last'.result]_vars

\* C21 happens: prepare_sync was called twice in a row on a document with
\* two rejected candidates and a valid one.
C21_Witness ==
    /\ last.op = "prepare"
    /\ last.before.ok
    /\ Len(last.result) = 2
    /\ \E i \in DOMAIN documents : Len(extract_paths(documents[i].body)) = 3

----------------------------------------------------------------------------
(* The metadata codec: files of any text, loaded, synced and loaded again   *)

TextTokens == {<<NL>>, <<" ">>, <<"g">>, Quoted(PathDotB)}

Texts == {Flatten(toks) : toks \in UNION {[1..n -> TextTokens] : n \in 0..MaxTextToks}}

\* A document file written by hand: the whole text without a metadata
\* block, or the text after a metadata block.
CodecInit ==
    /\ fs = InitFs
    /\ \E text \in Texts :
          \E file \in {PlainFile(text),
                       FileWithFm(<<"d1">>, <<"g">>, NoRefs, <<>>, <<NL>> \o text)} :
              disk = [d \in {Doc1} |-> file]
    /\ documents = <<>>
    /\ today = 1
    /\ last = [op |-> "create", after |-> Nothing]
    /\ scanner = ScannerIdle
    /\ validator = ValidatorIdle

NextCodec ==
    \/ Load
    \/ \E i \in DOMAIN documents : DocSync(i, TRUE, 0)

SpecCodec == CodecInit /\ [][NextCodec]_vars

----------------------------------------------------------------------------
(* Claims about the metadata codec, checked under SpecCodec                 *)

\* C19: for every document d with a non-empty references map,
\* parse(serialize(d)) is d again in slug, description, references, updated
\* and body, also when the body begins with blank lines or whitespace.
C19_RoundTrip ==
    \A i \in DOMAIN documents :
        LET d == documents[i]
        IN DOMAIN d.references # {} =>
              \A order \in Orders(DOMAIN d.references) :
                  parse(d.path, serialize(d, order)) = Ok(d)

----------------------------------------------------------------------------
(* Claims about Cache::status, checked under Spec                           *)

\* C20: Document::validate and Cache::status are read-only: whatever the
\* outcome, every loaded document and every file is as before the call, and
\* the lists of each Validation are built afresh: they hold references of
\* that document only, none twice and none in both.
C20_StatusReadOnly ==
    [][last'.op = "status" =>
          /\ documents' = documents
          /\ disk' = disk
          /\ fs' = fs
          /\ last'.result.ok =>
                \A i \in DOMAIN documents :
                    LET v == last'.result.value[i]
                    IN /\ Range(v.changed) \cup Range(v.missing)
                              \subseteq DOMAIN documents[i].references
                       /\ Cardinality(Range(v.changed) \cup Range(v.missing))
                              = Len(v.changed) + Len(v.missing)]_vars

\* C20 happens: status() reported one document Stale and another Valid.
C20_Witness ==
    /\ last.op = "status" /\ last.result.ok
    /\ \E i, j \in DOMAIN documents :
          /\ last.result.value[i].status = "Stale"
          /\ last.result.value[j].status = "Valid"
          /\ documents[j].references # NoRefs

----------------------------------------------------------------------------
(* Targeted operations: Cache::validate and Cache::sync on one location     *)

\* The targets of a call: none, or a location under the cache root.
Targets == {Err("None")} \cup {Ok(d) : d \in CacheFiles}

\* For every document of docs, an order its references are visited in.
DocOrders(docs) ==
    {orders \in [DOMAIN docs ->
                    UNION {Orders(DOMAIN docs[i].references) : i \in DOMAIN docs}] :
        \A i \in DOMAIN docs : orders[i] \in Orders(DOMAIN docs[i].references)}

RefOrders == DocOrders(documents)

\* Cache::validate for all documents (target = Err) or one location (Ok).
Validate(target) ==
    \E orders \in RefOrders :
        /\ last' = [op |-> "validate", target |-> target,
                    result |-> cache_validate(fs, documents, orders, target),
                    after |-> Nothing]
        /\ UNCHANGED <<fs, disk, documents, today, scanner, validator>>

NextTarget ==
    \/ Load
    \/ \E target \in Targets : Validate(target)
    \/ \E target \in Targets : CacheSync(target, {}, 0)
    \/ \E n \in SourceFiles : ExternalDelete(n)

SpecTarget == Init /\ [][NextTarget]_vars

\* C22: a targeted operation on a location that matches no loaded document
\* is not reported as success: Cache::validate and Cache::sync with such a
\* target return the DocumentNotFound error, not a Validation, an empty
\* result or an InvalidReferences error.
C22_UnloadedTargetNotFound ==
    (/\ last.op \in {"validate", "cache_sync"}
     /\ last.target.ok
     /\ last.target.value \notin Held)
    => /\ ~last.result.ok
       /\ last.result.error.kind = "DocumentNotFound"

----------------------------------------------------------------------------
(* More claims about the Path Scanner                                       *)

\* Bodies for the inline spans: every run of backticks is typed one
\* backtick at a time, a fence marker too.
SpecSpan == ScanInit /\ [][\E t \in Tokens \ {Fence} : TypeToken(t)]_vars

\* Bodies for the fenced regions: fence markers, indentation and quoted
\* paths, with stray backticks to lengthen a marker or open a span.
SpecFence ==
    ScanInit /\ [][\E t \in Tokens \ {PathAB, <<".", "/">>} : TypeToken(t)]_vars

\* Line k is scanned: it is no fence line and lies outside every fenced
\* region.
Outside(ls, k) == ~IsFenceLine(ls[k]) /\ ~InsideFence(ls, k)

\* The positions of the backticks of a line.
TickPositions(line) == {i \in DOMAIN line : line[i] = TICK}

\* No two backticks of the line stand next to each other.
SingleTicksOnly(line) ==
    \A i \in TickPositions(line) : i + 1 \notin TickPositions(line)

\* The single-backtick spans of such a line that are closed on the line:
\* the texts between the first and the second backtick, the third and the
\* fourth, and so on.
ClosedSpans(line) ==
    LET ticks == TickPositions(line)
    IN {SubSeq(line, ab[1] + 1, ab[2] - 1) :
           ab \in {ab \in ticks \X ticks :
                     /\ ab[1] < ab[2]
                     /\ \A t \in ticks : ~(ab[1] < t /\ t < ab[2])
                     /\ Cardinality({t \in ticks : t < ab[1]}) % 2 = 0}}

\* C23: on a scanned line with single backticks only, the text of a span
\* closed on the line becomes a candidate iff it contains "/": the line
\* yields exactly the spans with a "/" (one leading "./" stripped), all of
\* them are in the result of extract_paths, and nothing comes of a backtick
\* that is not closed on its line, whatever the next line holds.
C23_SingleSpanCandidates ==
    LET ls == ScannedLines
        found == Range(scanner.paths)
    IN \A k \in DOMAIN ls :
           LET line == ls[k]
               slashed == {c \in ClosedSpans(line) : "/" \in Range(c)}
           IN (Outside(ls, k) /\ SingleTicksOnly(line)) =>
                 /\ extract_backtick_paths(line, {})
                       = {normalize_path(c) : c \in slashed}
                 /\ \A c \in slashed : normalize_path(c) \in found

\* C23 happens: a backtick opens before a path on one line, the next line
\* has a backtick after a path, and extract_paths returns nothing.
C23_Witness ==
    /\ scanner.paths = <<>>
    /\ Len(ScannedLines) = 2
    /\ ScannedLines[1] = <<TICK>> \o PathAB
    /\ ScannedLines[2] = PathAB \o <<TICK>>

\* The position after the first run of exactly n backticks that begins at
\* or after j, Len(line) + 1 when the line has none.
RECURSIVE AfterMatchingRun(_, _, _)
AfterMatchingRun(line, j, n) ==
    IF j > Len(line) THEN Len(line) + 1
    ELSE IF line[j] # TICK THEN AfterMatchingRun(line, j + 1, n)
    ELSE IF RunLen(line, j) = n THEN j + n
    ELSE AfterMatchingRun(line, j + RunLen(line, j), n)

\* The candidates of a line from position i on, when the text after a run
\* of n >= 2 backticks is skipped up to the next run of exactly n backticks
\* and single-backtick spans are read only outside such stretches.
RECURSIVE CandidatesFrom(_, _)
CandidatesFrom(line, i) ==
    IF i > Len(line) THEN {}
    ELSE IF line[i] # TICK THEN CandidatesFrom(line, i + 1)
    ELSE IF RunLen(line, i) >= 2
    THEN CandidatesFrom(line, AfterMatchingRun(line, i + RunLen(line, i),
                                               RunLen(line, i)))
    ELSE LET end == IndexFrom(line, TICK, i + 1)
             content == SubSeq(line, i + 1, end - 1)
         IN IF end = 0 THEN {}
            ELSE (IF "/" \in Range(content) THEN {normalize_path(content)} ELSE {})
                     \cup CandidatesFrom(line, end + 1)

\* C24: on every scanned line the text after a run of n >= 2 backticks is
\* skipped up to the matching closing run of the same length n, single
\* backticks around a path inside it included, and single-backtick spans
\* are read again only after the matching run: the result of extract_paths
\* holds exactly the candidates that such a reading of the lines yields.
C24_MultiRunSkipped ==
    Range(scanner.paths) =
        UNION {CandidatesFrom(ScannedLines[k], 1) :
                  k \in {k \in DOMAIN ScannedLines : Outside(ScannedLines, k)}}

\* The first three characters of the line after its leading blanks are
\* backticks.
FenceMarked(line) ==
    \E i \in 1..Len(line) :
        /\ \A j \in 1..(i - 1) : line[j] = " "
        /\ i + 2 <= Len(line)
        /\ \A j \in i..(i + 2) : line[j] = TICK

\* The inside-fence flag after line k: the parity of the fence lines among
\* the lines 1..k.
FlagAfter(ls, k) == Cardinality({j \in 1..k : FenceMarked(ls[j])}) % 2 = 1

\* C25: the inside-fence flag after line k is the parity of the number of
\* fence lines among 1..k; a fence line contributes no candidate itself,
\* and a line is scanned iff the flag is off before it: extract_paths
\* returns exactly the candidates of the lines that are no fence lines and
\* follow an even number of fence lines, so after an opening fence that is
\* never closed every remaining line is skipped.
C25_FenceParity ==
    LET ls == ScannedLines
    IN Range(scanner.paths) =
           UNION {extract_backtick_paths(ls[k], {}) :
                     k \in {k \in DOMAIN ls :
                               /\ ~FenceMarked(ls[k])
                               /\ ~FlagAfter(ls, k - 1)}}

\* C25 happens: an indented fence line that holds a quoted path opens a
\* region that is never closed, the next line holds a quoted path, and
\* extract_paths returns nothing.
C25_Witness ==
    /\ scanner.paths = <<>>
    /\ Len(ScannedLines) = 2
    /\ ScannedLines[1] = <<" ">> \o Fence \o Quoted(PathAB)
    /\ ScannedLines[2] = Quoted(PathAB)
    /\ FlagAfter(ScannedLines, 2)

----------------------------------------------------------------------------
(* A cache directory that is not named ".context"                           *)

\* Cache::create takes any directory: here the cache root is p/docs, so
\* the document under it has no ".context" ancestor.
StrayDir == ProjectRoot \o << <<"docs">> >>
Doc3 == StrayDir \o << <<"d3", ".md">> >>

\* What d3.md holds at first: a body and the references of its metadata
\* block.
RefB == [k \in {<<"b">>} |-> hash(0)]
RefsBoth == [k \in {<<"b">>, PathAB} |-> hash(0)]
Drafts3 ==
    {<<BodyDotB, NoRefs>>, <<BodyDotB, RefB>>, <<BodyDotB, RefsBoth>>,
     <<BodyMixed, RefB>>, <<BodyNone, NoRefs>>, <<BodyNone, RefsBoth>>}

StrayInit ==
    /\ fs = InitFs
    /\ \E d3 \in Drafts3 :
          disk = [d \in {Doc3} |->
                     FileWithFm(<<"d3">>, <<>>, d3[2], <<>>, <<NL>> \o d3[1])]
    /\ documents = <<>>
    /\ today = 1
    /\ last = [op |-> "create", after |-> Nothing]
    /\ scanner = ScannerIdle
    /\ validator = ValidatorIdle

NextStray ==
    \/ Load
    \/ Status
    \/ \E i \in DOMAIN documents : Prepare(i)
    \/ \E i \in DOMAIN documents : DocSync(i, TRUE, 0)
    \/ \E n \in SourceFiles, c \in Contents : ExternalWrite(n, c)
    \/ \E n \in SourceFiles : ExternalDelete(n)

SpecStray == StrayInit /\ [][NextStray]_vars

\* C26: for a document without a ".context" ancestor, validate treats the
\* resolution of every reference as failing: all its references are in
\* missing, none in changed, and the status is Orphaned when it has any,
\* whether or not a file of the same relative path exists under the
\* current directory of the process.
C26_NoRootAllMissing ==
    (last.op = "status" /\ last.result.ok) =>
        \A i \in DOMAIN documents :
            ~project_root(documents[i]).ok =>
                LET v == last.result.value[i]
                    refs == DOMAIN documents[i].references
                IN /\ Lists(v.missing, refs)
                   /\ v.changed = <<>>
                   /\ refs # {} => v.status = "Orphaned"

\* The last sync failed with InvalidReferences.
SyncRefused ==
    /\ ~last.result.ok
    /\ last.result.error.kind = "InvalidReferences"

\* C28: prepare_sync and sync agree on the same state: for the document
\* just synced, prepare_sync returns the empty list iff the sync did not
\* fail with InvalidReferences, and when both report rejections they
\* report the same (path, reason) pairs, also when no project root can be
\* found (a failed sync changes nothing and a successful one neither body
\* nor files, so prepare_sync sees the state the sync saw).
C28_PrepareAgreesWithSync ==
    \A i \in DOMAIN documents :
        (last.op = "doc_sync" /\ last.doc = documents[i].path) =>
            LET prepared == prepare_sync(fs, documents[i])
            IN /\ prepared = <<>> <=> ~SyncRefused
               /\ (prepared # <<>> /\ SyncRefused) =>
                     Range(prepared) = Range(last.result.error.documents[1][2])

----------------------------------------------------------------------------
(* Sync and what the next look at the document sees                         *)

\* The exit code of the status command: 2 with an Orphaned document, 1 with
\* a Stale one, 0 otherwise.
exit_code(statuses) ==
    IF \E i \in DOMAIN statuses : statuses[i].status = "Orphaned" THEN 2
    ELSE IF \E i \in DOMAIN statuses : statuses[i].status = "Stale" THEN 1
    ELSE 0

\* statuses.retain(|s| s.status != Status::Valid)
RECURSIVE retain_invalid(_)
retain_invalid(statuses) ==
    IF statuses = <<>> THEN <<>>
    ELSE (IF Head(statuses).status # "Valid" THEN <<Head(statuses)>> ELSE <<>>)
             \o retain_invalid(Tail(statuses))

\* The status command of the command line: a new cache over the context
\* directory, Cache::load, Cache::status, the Valid entries dropped when
\* invalid_only is set, and the exit code.
StatusCommand(invalid_only) ==
    \E walk \in Walks(disk) :
    \E loaded \in {load(<<>>, disk, walk)} :
    \E orders \in DocOrders(loaded.documents) :
        LET statuses == StatusFrom(fs, loaded.documents, orders, 1, <<>>)
        IN /\ last' = [op |-> "status_command", invalid_only |-> invalid_only,
                       result |->
                           IF ~loaded.result.ok THEN loaded.result
                           ELSE IF ~statuses.ok THEN statuses
                           ELSE Ok([statuses |->
                                       IF invalid_only
                                       THEN retain_invalid(statuses.value)
                                       ELSE statuses.value,
                                    code |-> exit_code(statuses.value)]),
                       after |-> IF SyncedBefore # {} THEN JustSynced(SyncedBefore)
                                 ELSE Nothing]
           /\ UNCHANGED <<fs, disk, documents, today, scanner, validator>>

\* What d1.md holds at first: any short text with or without a metadata
\* block, or a longer body with references that name a directory.
SettleFiles ==
    UNION {{PlainFile(text),
            FileWithFm(<<"d1">>, <<"g">>, NoRefs, <<>>, <<NL>> \o text)} :
              text \in Texts}
      \cup {FileWithFm(<<"d1">>, <<"g">>, OldRefs, <<>>, <<NL>> \o BodyTwo),
            PlainFile(BodyOutside)}

SettleInit ==
    /\ fs = InitFs
    /\ \E file \in SettleFiles : disk = [d \in {Doc1} |-> file]
    /\ documents = <<>>
    /\ today = 1
    /\ last = [op |-> "create", after |-> Nothing]
    /\ scanner = ScannerIdle
    /\ validator = ValidatorIdle

NextSettle ==
    \/ Load
    \/ \E i \in DOMAIN documents, seed \in Seeds : DocSync(i, TRUE, seed)
    \/ Status
    \/ \E invalid_only \in BOOLEAN : StatusCommand(invalid_only)
    \/ \E c \in Contents : ExternalWrite(FileB, c)
    \/ ExternalDelete(FileB)

SpecSettle == SettleInit /\ [][NextSettle]_vars

C29_SyncIdempotent ==
    [][\A i \in DOMAIN documents :
          (/\ last.op = "doc_sync" /\ last.result.ok
           /\ last.doc = documents[i].path
           /\ last'.op = "doc_sync"
           /\ last'.doc = last.doc)
          => /\ last'.result.ok
             /\ documents'[i].references = documents[i].references
             /\ documents'[i].updated = documents[i].updated
             /\ disk'[last.doc] = disk[last.doc]]_vars

----------------------------------------------------------------------------
(* The frame of sync, checked under SpecCodec                               *)

\* C30: a sync, successful or failed, leaves slug, description, body and
\* location of the document as they were, and the backing file a
\* successful sync wrote loads into a document with the slug, the
\* description and the body the document had before the sync, also when
\* the document was loaded from a file without metadata block.
C30_SyncFrame ==
    [][\A i \in DOMAIN documents :
          (last'.op = "doc_sync" /\ last'.doc = documents[i].path) =>
              LET before == documents[i]
                  reloaded == parse(before.path, disk'[before.path])
              IN /\ documents'[i].slug = before.slug
                 /\ documents'[i].description = before.description
                 /\ documents'[i].body = before.body
                 /\ documents'[i].path = before.path
                 /\ last'.result.ok =>
                       /\ reloaded.ok
                       /\ reloaded.value.slug = before.slug
                       /\ reloaded.value.description = before.description
                       /\ reloaded.value.body = before.body]_vars

====
